---- MODULE Spec2Model ----
(***************************************************************************)
(* Model of src/app/page.tsx: the Calculadora component.                   *)
(*                                                                         *)
(* The component keeps seven pieces of React state (modeloActual,          *)
(* operacion, valA, valB, resultado, cargando, origenModelo), an effect    *)
(* that resolves a model whenever operacion changes (cambiarModelo) and a  *)
(* click handler that runs a forward pass (calcular).  Both are async:     *)
(* cambiarModelo suspends at tf.loadLayersModel, calcular at data().       *)
(* Every handler runs to its next await as one atomic step (single         *)
(* JavaScript task queue); state setters of one step are committed         *)
(* together and a handler sees the state of the latest render.             *)
(*                                                                         *)
(* Numbers are fixed point, in thousandths (2.5 is 2500).  Text is a       *)
(* sequence of one-character strings.                                      *)
(***************************************************************************)
EXTENDS Integers, Sequences, FiniteSets, TLC

(***************************************************************************)
(* Bounds of the model.                                                    *)
(***************************************************************************)
\* cambiarModelo runs at most MaxCargas times (the mount plus the changes)
MaxCargas == 2
\* calcular is clicked at most MaxLlamadas times
MaxLlamadas == 2

(***************************************************************************)
(* Text and numbers.                                                       *)
(***************************************************************************)
Digitos == {"0", "1", "2", "3", "4", "5", "6", "7", "8", "9"}

DigitoVal ==
  [c \in Digitos |->
     CASE c = "0" -> 0 [] c = "1" -> 1 [] c = "2" -> 2 [] c = "3" -> 3
       [] c = "4" -> 4 [] c = "5" -> 5 [] c = "6" -> 6 [] c = "7" -> 7
       [] c = "8" -> 8 [] c = "9" -> 9]

DigitoChar ==
  [d \in 0..9 |->
     CASE d = 0 -> "0" [] d = 1 -> "1" [] d = 2 -> "2" [] d = 3 -> "3"
       [] d = 4 -> "4" [] d = 5 -> "5" [] d = 6 -> "6" [] d = 7 -> "7"
       [] d = 8 -> "8" [] d = 9 -> "9"]

\* the strings the two <input> elements deliver in the session model: the
\* empty string, one that is no number, one number
Entradas ==
  { <<>>, <<"a", "b", "c">>, <<"2">> }

\* the strings of the session in which two calls differ in their inputs
EntradasDosValores ==
  { <<>>, <<"2">>, <<"3">> }

\* the strings used to exercise calcular as a function of its inputs
EntradasAmplias ==
  { <<>>, <<"a", "b", "c">>, <<"2">>, <<"3">>, <<"1", "0">>, <<"4">>,
    <<"-", "1", ".", "5">>, <<"0", ".", "0", "0", "6">>, <<"2", "a">>,
    <<".", "5">>, <<"-">> }

\* length of the longest prefix of s, from position i on, made of digits
RECURSIVE LargoDigitos(_, _)
LargoDigitos(s, i) ==
  IF i <= Len(s) /\ s[i] \in Digitos THEN 1 + LargoDigitos(s, i + 1) ELSE 0

\* value of the digits s[i .. i+n-1] read as a decimal integer
RECURSIVE ValorDigitos(_, _, _)
ValorDigitos(s, i, n) ==
  IF n = 0 THEN 0
  ELSE 10 * ValorDigitos(s, i, n - 1) + DigitoVal[s[i + n - 1]]

\* the first three digits of the fraction s[i .. i+n-1], as thousandths
ValorFraccion(s, i, n) ==
  LET d(k) == IF k <= n THEN DigitoVal[s[i + k - 1]] ELSE 0
  IN  100 * d(1) + 10 * d(2) + d(3)

NaN == [nan |-> TRUE, v |-> 0]
Num(x) == [nan |-> FALSE, v |-> x]
isNaN(n) == n.nan

\* parseFloat: optional sign, digits, optional fraction; the longest prefix
\* that is a decimal literal is the value, NaN when there is none
parseFloat(s) ==
  LET conSigno == Len(s) >= 1 /\ s[1] \in {"-", "+"}
      signo    == IF Len(s) >= 1 /\ s[1] = "-" THEN -1 ELSE 1
      i        == IF conSigno THEN 2 ELSE 1
      nEnt     == LargoDigitos(s, i)
      j        == i + nEnt
      conPunto == j <= Len(s) /\ s[j] = "."
      nFrac    == IF conPunto THEN LargoDigitos(s, j + 1) ELSE 0
  IN  IF nEnt = 0 /\ nFrac = 0 THEN NaN
      ELSE Num(signo * (1000 * ValorDigitos(s, i, nEnt)
                          + ValorFraccion(s, j + 1, nFrac)))

\* decimal digits of a natural number
RECURSIVE Decimal(_)
Decimal(n) ==
  IF n < 10 THEN <<DigitoChar[n]>>
  ELSE Decimal(n \div 10) \o <<DigitoChar[n % 10]>>

\* Number.prototype.toFixed(2) of x thousandths: the sign, then the
\* magnitude rounded to the nearest hundredth
toFixed2(x) ==
  LET ax == IF x < 0 THEN -x ELSE x
      n  == (ax + 5) \div 10
  IN  (IF x < 0 THEN <<"-">> ELSE <<>>)
        \o Decimal(n \div 100)
        \o <<".", DigitoChar[(n \div 10) % 10], DigitoChar[n % 10]>>

(***************************************************************************)
(* State.                                                                  *)
(***************************************************************************)
VARIABLES
  modeloActual,   \* useState<tf.LayersModel | null>: a model record or Null
  operacion,      \* useState<'suma' | 'resta'>
  valA,           \* useState<string>
  valB,           \* useState<string>
  resultado,      \* useState<string | null>: text or NullTexto
  cargando,       \* useState<boolean>
  origenModelo,   \* useState<string>
  montado,        \* the mount effect has run
  cargas,         \* cambiarModelo calls suspended at tf.loadLayersModel
  nCargas,        \* number of cambiarModelo calls so far
  predicciones,   \* calcular calls suspended at data()
  nLlamadas,      \* number of clicks on the compute button so far
  tensores,       \* transient tensors created by calcular and not disposed
  modelosVivos,   \* ids of the model instances created and not disposed
  resuelto,       \* history: the load that settled last, and whether the
                  \* slot was cleared since
  ultimaIniciada, \* history: the call that started a forward pass last
  modeloUsado,    \* history: id of the model whose predict was called last
  escritor,       \* history: the call whose outcome resultado displays
  textoUltima,    \* history: what the call numbered ultimaIniciada
                  \* displayed when it completed
  solapadas,      \* history: a forward pass started while another waited
  ultimoCalculo   \* history: how the latest click on the compute button
                  \* ended ("retorno", "alerta", "lanza", "predict")

estado == <<modeloActual, operacion, valA, valB, resultado, cargando,
            origenModelo>>
historia == <<resuelto, ultimaIniciada, modeloUsado, escritor, textoUltima, solapadas,
              ultimoCalculo>>
vars == <<modeloActual, operacion, valA, valB, resultado, cargando,
          origenModelo, montado, cargas, nCargas, predicciones, nLlamadas,
          tensores, modelosVivos, resuelto, ultimaIniciada, modeloUsado,
          escritor, textoUltima, solapadas, ultimoCalculo>>

\* null of a model slot and null of a text slot
Null == [id |-> 0]
NullTexto == <<"null">>

Operaciones == {"suma", "resta"}

\* what the value returned by predict can be: one tensor, a list of tensors,
\* or nothing because the call throws (input shape does not fit the model)
Formas == {"tensor", "lista", "incompatible"}

Error == <<"E", "r", "r", "o", "r">>

\* crearModeloEnMemoria with the sign of the second weight lost
crearModeloEnMemoriaSinSigno(op, id) ==
  [id |-> id, op |-> op, origen |-> "memoria",
   pesos |-> <<1, 1>>, sesgo |-> 0, forma |-> "tensor"]

(***************************************************************************)
(* crearModeloEnMemoria: one dense unit, kernel [[w1], [w2]], bias [0].    *)
(* id stands for the identity of the object tf.sequential() allocates.     *)
(***************************************************************************)
crearModeloEnMemoria(op, id) ==
  LET w1 == 1
      w2 == IF op = "suma" THEN 1 ELSE -1
  IN  [id |-> id, op |-> op, origen |-> "memoria",
       pesos |-> <<w1, w2>>, sesgo |-> 0, forma |-> "tensor"]

\* the path cambiarModelo derives from operacion
Path(op) ==
  IF op = "suma" THEN "/modelo_suma/model.json" ELSE "/modelo_resta/model.json"

\* the models tf.loadLayersModel(path) can return when the artifact exists:
\* the file is external, so the shape of what its predict returns is open
loadLayersModel(path, id) ==
  { [id |-> id,
     op |-> IF path = "/modelo_suma/model.json" THEN "suma" ELSE "resta",
     origen |-> "archivo",
     pesos |-> <<1, IF path = "/modelo_suma/model.json" THEN 1 ELSE -1>>,
     sesgo |-> 0, forma |-> f] : f \in Formas }

(***************************************************************************)
(* Tensors.  A transient tensor is known by the call that created it, its  *)
(* role and its position; valor is its single element.                     *)
(***************************************************************************)
tensor2d(llamada, nA, nB) ==
  [llamada |-> llamada, rol |-> "input", k |-> 0, valor |-> <<nA, nB>>]

\* the dense layer applied to the row [a, b]
Densa(m, fila) == m.pesos[1] * fila[1] + m.pesos[2] * fila[2] + m.sesgo

\* a forward pass that is not a function of its input: the bias grows with
\* every call, as in a model that keeps being updated
predictConEstado(m, inputTensor) ==
  LET y == Densa(m, inputTensor.valor) + 1000 * inputTensor.llamada
      t(k) == [llamada |-> inputTensor.llamada, rol |-> "pred", k |-> k,
               valor |-> <<y>>]
  IN  CASE m.forma = "tensor" -> [esLista |-> FALSE, ts |-> <<t(1)>>]
        [] m.forma = "lista"  -> [esLista |-> TRUE, ts |-> <<t(1), t(2)>>]
        [] OTHER              -> Null

\* modeloActual.predict(inputTensor): Null when it throws, otherwise the
\* Tensor | Tensor[] it returns
predict(m, inputTensor) ==
  LET y == Densa(m, inputTensor.valor)
      t(k) == [llamada |-> inputTensor.llamada, rol |-> "pred", k |-> k,
               valor |-> <<y>>]
  IN  CASE m.forma = "tensor" -> [esLista |-> FALSE, ts |-> <<t(1)>>]
        [] m.forma = "lista"  -> [esLista |-> TRUE, ts |-> <<t(1), t(2)>>]
        [] OTHER              -> Null

\* Array.isArray(prediccionTensor)
isArray(p) == p.esLista

\* the finally block without the forEach: only the first tensor of a
\* prediction list is disposed
FinallySoloPrimero(vivos, inputTensor, prediccionTensor) ==
  LET sinInput == IF inputTensor # Null THEN vivos \ {inputTensor} ELSE vivos
  IN  IF prediccionTensor # Null
      THEN sinInput \ {prediccionTensor.ts[1]}
      ELSE sinInput

\* the finally block of calcular: dispose the input tensor and the
\* prediction tensor, or every tensor of the prediction list
Finally(vivos, inputTensor, prediccionTensor) ==
  LET sinInput == IF inputTensor # Null THEN vivos \ {inputTensor} ELSE vivos
  IN  IF prediccionTensor # Null
      THEN IF isArray(prediccionTensor)
           THEN sinInput \ {prediccionTensor.ts[k] :
                               k \in 1..Len(prediccionTensor.ts)}
           ELSE sinInput \ {prediccionTensor.ts[1]}
      ELSE sinInput

\* data[0].toFixed(2) of the first (or only) prediction tensor
TextoDe(prediccionTensor) == toFixed2(prediccionTensor.ts[1].valor[1])

(***************************************************************************)
(* Init: the state of the first render, before the mount effect.           *)
(***************************************************************************)
Init ==
  /\ modeloActual = Null
  /\ operacion = "suma"
  /\ valA = <<>>
  /\ valB = <<>>
  /\ resultado = NullTexto
  /\ cargando = FALSE
  /\ origenModelo = ""
  /\ montado = FALSE
  /\ cargas = {}
  /\ nCargas = 0
  /\ predicciones = {}
  /\ nLlamadas = 0
  /\ tensores = {}
  /\ modelosVivos = {}
  /\ resuelto = [id |-> 0, limpiado |-> FALSE]
  /\ ultimaIniciada = 0
  /\ modeloUsado = 0
  /\ escritor = 0
  /\ textoUltima = NullTexto
  /\ solapadas = FALSE
  /\ ultimoCalculo = "ninguno"

\* cambiarModelo without setResultado(null): the result of the operation
\* left behind stays on display
cambiarModeloSinResultado(op) ==
  /\ nCargas < MaxCargas
  /\ nCargas' = nCargas + 1
  /\ modeloActual' = Null
  /\ cargando' = TRUE
  /\ origenModelo' = ""
  /\ cargas' = cargas \cup {[id |-> nCargas + 1, op |-> op, path |-> Path(op)]}
  /\ resuelto' = [resuelto EXCEPT !.limpiado = TRUE]
  /\ ultimaIniciada' = 0
  /\ escritor' = 0
  /\ textoUltima' = NullTexto
  /\ solapadas' = FALSE
  /\ UNCHANGED <<valA, valB, predicciones, nLlamadas, tensores, modelosVivos,
                 modeloUsado, ultimoCalculo, resultado>>

\* cambiarModelo without setOrigenModelo(''): the tag of the model that
\* was dropped stays
cambiarModeloSinOrigen(op) ==
  /\ nCargas < MaxCargas
  /\ nCargas' = nCargas + 1
  /\ modeloActual' = Null
  /\ resultado' = NullTexto
  /\ cargando' = TRUE
  /\ cargas' = cargas \cup {[id |-> nCargas + 1, op |-> op, path |-> Path(op)]}
  /\ resuelto' = [resuelto EXCEPT !.limpiado = TRUE]
  /\ ultimaIniciada' = 0
  /\ escritor' = 0
  /\ textoUltima' = NullTexto
  /\ solapadas' = FALSE
  /\ UNCHANGED <<valA, valB, predicciones, nLlamadas, tensores, modelosVivos,
                 modeloUsado, ultimoCalculo, origenModelo>>

(***************************************************************************)
(* cambiarModelo up to its await: clear the slot, the result and the tag,  *)
(* raise the loading flag and start tf.loadLayersModel(path).  op is the   *)
(* operacion of the render whose effect runs.  The model that was in the   *)
(* slot is dropped without a dispose() call.                               *)
(***************************************************************************)
cambiarModelo(op) ==
  /\ nCargas < MaxCargas
  /\ nCargas' = nCargas + 1
  /\ modeloActual' = Null
  /\ resultado' = NullTexto
  /\ cargando' = TRUE
  /\ origenModelo' = ""
  /\ cargas' = cargas \cup {[id |-> nCargas + 1, op |-> op, path |-> Path(op)]}
  /\ resuelto' = [resuelto EXCEPT !.limpiado = TRUE]
  /\ ultimaIniciada' = 0
  /\ escritor' = 0
  /\ textoUltima' = NullTexto
  /\ solapadas' = FALSE
  /\ UNCHANGED <<valA, valB, predicciones, nLlamadas, tensores, modelosVivos,
                 modeloUsado, ultimoCalculo>>

\* useEffect(..., [operacion]) on mount
EfectoMontaje ==
  /\ ~montado
  /\ montado' = TRUE
  /\ cambiarModelo(operacion)
  /\ UNCHANGED operacion

\* onClick={() => setOperacion(op)} of an operation button whose value
\* differs from operacion: the render is followed by the effect
CambiarOperacion(op) ==
  /\ montado
  /\ op # operacion
  /\ operacion' = op
  /\ cambiarModelo(op)
  /\ UNCHANGED montado

\* the same click on the button of the selected operation: React bails out,
\* no render and no effect
MismaOperacion(op) ==
  /\ montado
  /\ op = operacion
  /\ UNCHANGED vars

(***************************************************************************)
(* cambiarModelo after its await.                                          *)
(***************************************************************************)
\* a settled load without the finally block: the loading flag stays raised
AsentarSinFinally(l, m, origen) ==
  /\ modeloActual' = m
  /\ origenModelo' = origen
  /\ cargas' = cargas \ {l}
  /\ modelosVivos' = modelosVivos \cup {m.id}
  /\ resuelto' = [id |-> l.id, limpiado |-> FALSE]
  /\ UNCHANGED <<operacion, valA, valB, resultado, cargando, montado, nCargas,
                 predicciones, nLlamadas, tensores, ultimaIniciada,
                 modeloUsado, escritor, textoUltima, solapadas, ultimoCalculo>>

\* a settled load that fills the slot only when the slot is empty
AsentarSiVacio(l, m, origen) ==
  /\ modeloActual' = (IF modeloActual = Null THEN m ELSE modeloActual)
  /\ origenModelo' = (IF modeloActual = Null THEN origen ELSE origenModelo)
  /\ cargando' = FALSE
  /\ cargas' = cargas \ {l}
  /\ modelosVivos' = modelosVivos \cup {m.id}
  /\ resuelto' = [id |-> l.id, limpiado |-> FALSE]
  /\ UNCHANGED <<operacion, valA, valB, resultado, montado, nCargas,
                 predicciones, nLlamadas, tensores, ultimaIniciada,
                 modeloUsado, escritor, textoUltima, solapadas, ultimoCalculo>>

\* what a settled load leaves behind: the slot, the tag, the flag
Asentar(l, m, origen) ==
  /\ modeloActual' = m
  /\ origenModelo' = origen
  /\ cargando' = FALSE
  /\ cargas' = cargas \ {l}
  /\ modelosVivos' = modelosVivos \cup {m.id}
  /\ resuelto' = [id |-> l.id, limpiado |-> FALSE]
  /\ UNCHANGED <<operacion, valA, valB, resultado, montado, nCargas,
                 predicciones, nLlamadas, tensores, ultimaIniciada,
                 modeloUsado, escritor, textoUltima, solapadas, ultimoCalculo>>

\* tf.loadLayersModel resolved: try branch, then finally
CargaResuelve(l) ==
  /\ l \in cargas
  /\ \E m \in loadLayersModel(l.path, l.id) : Asentar(l, m, "Archivo JSON")

\* a catch branch that only logs: no fallback model is built
CargaFallaSinFallback(l) ==
  /\ l \in cargas
  /\ modeloActual' = Null
  /\ origenModelo' = ""
  /\ cargando' = FALSE
  /\ cargas' = cargas \ {l}
  /\ resuelto' = [id |-> l.id, limpiado |-> FALSE]
  /\ UNCHANGED <<operacion, valA, valB, resultado, montado, nCargas,
                 predicciones, nLlamadas, tensores, modelosVivos,
                 ultimaIniciada, modeloUsado, escritor, textoUltima,
                 solapadas, ultimoCalculo>>

\* tf.loadLayersModel rejected: catch branch (fallback), then finally
CargaFalla(l) ==
  /\ l \in cargas
  /\ LET mSintetico == crearModeloEnMemoria(l.op, l.id)
     IN  Asentar(l, mSintetico, "Generado en Memoria (Demo)")

(***************************************************************************)
(* The two inputs.                                                         *)
(***************************************************************************)
setValA(s) ==
  /\ montado
  /\ valA' = s
  /\ UNCHANGED <<modeloActual, operacion, valB, resultado, cargando,
                 origenModelo, montado, cargas, nCargas, predicciones,
                 nLlamadas, tensores, modelosVivos, resuelto, ultimaIniciada,
                 modeloUsado, escritor, textoUltima, solapadas, ultimoCalculo>>

setValB(s) ==
  /\ montado
  /\ valB' = s
  /\ UNCHANGED <<modeloActual, operacion, valA, resultado, cargando,
                 origenModelo, montado, cargas, nCargas, predicciones,
                 nLlamadas, tensores, modelosVivos, resuelto, ultimaIniciada,
                 modeloUsado, escritor, textoUltima, solapadas, ultimoCalculo>>

(***************************************************************************)
(* calcular.                                                               *)
(***************************************************************************)
\* disabled={!modeloActual || cargando} of the compute button
BotonHabilitado == modeloActual # Null /\ ~cargando

\* the first guard of calcular
RetornoTemprano == modeloActual = Null \/ valA = <<>> \/ valB = <<>>

\* the second guard with && in place of ||
EntradaInvalidaAmbas(nA, nB) == isNaN(nA) /\ isNaN(nB)

\* the second guard of calcular, on the two parsed inputs
EntradaInvalida(nA, nB) == isNaN(nA) \/ isNaN(nB)

\* the model whose predict calcular calls: the slot of the latest render
ModeloDeCalcular == modeloActual

\* onClick={calcular}, up to the first await or to the return.  Only a call
\* that reaches tensor2d is numbered.
calcular ==
  /\ montado
  /\ BotonHabilitado
  /\ LET id == nLlamadas + 1
         nA == parseFloat(valA)
         nB == parseFloat(valB)
     IN  IF RetornoTemprano
         THEN /\ ultimoCalculo' = "retorno"
              /\ UNCHANGED <<estado, predicciones, nLlamadas, tensores,
                             ultimaIniciada, modeloUsado, escritor,
                             textoUltima, solapadas>>
         ELSE IF EntradaInvalida(nA, nB)
         THEN \* alert("Por favor ingresa números válidos")
              /\ ultimoCalculo' = "alerta"
              /\ UNCHANGED <<estado, predicciones, nLlamadas, tensores,
                             ultimaIniciada, modeloUsado, escritor,
                             textoUltima, solapadas>>
         ELSE LET inputTensor == tensor2d(id, nA.v, nB.v)
                  prediccionTensor == predict(ModeloDeCalcular, inputTensor)
              IN  /\ nLlamadas < MaxLlamadas
                  /\ nLlamadas' = id
                  /\ ultimaIniciada' = id
                  /\ modeloUsado' = ModeloDeCalcular.id
                  /\ solapadas' = (solapadas \/ predicciones # {})
                  /\ IF prediccionTensor = Null
                     THEN \* predict threw: catch, then finally
                          /\ resultado' = Error
                          /\ escritor' = id
                          /\ textoUltima' = Error
                          /\ tensores' = Finally(tensores \cup {inputTensor},
                                                 inputTensor, Null)
                          /\ ultimoCalculo' = "lanza"
                          /\ UNCHANGED predicciones
                     ELSE \* suspended at data()
                          /\ predicciones' = predicciones \cup
                               {[id |-> id, modelo |-> ModeloDeCalcular,
                                 inputTensor |-> inputTensor,
                                 prediccionTensor |-> prediccionTensor]}
                          /\ tensores' = tensores \cup {inputTensor} \cup
                               {prediccionTensor.ts[k] :
                                  k \in 1..Len(prediccionTensor.ts)}
                          /\ ultimoCalculo' = "predict"
                          /\ textoUltima' = NullTexto
                          /\ UNCHANGED <<resultado, escritor>>
                  /\ UNCHANGED <<modeloActual, operacion, valA, valB,
                                 cargando, origenModelo>>
  /\ UNCHANGED <<montado, cargas, nCargas, modelosVivos, resuelto>>

\* a completion that also lowers the loading flag
DataResuelveBajaCargando(p) ==
  /\ p \in predicciones
  /\ resultado' = TextoDe(p.prediccionTensor)
  /\ cargando' = FALSE
  /\ escritor' = p.id
  /\ textoUltima' = IF p.id = ultimaIniciada THEN resultado' ELSE textoUltima
  /\ tensores' = Finally(tensores, p.inputTensor, p.prediccionTensor)
  /\ predicciones' = predicciones \ {p}
  /\ UNCHANGED <<modeloActual, operacion, valA, valB, origenModelo,
                 montado, cargas, nCargas, nLlamadas, modelosVivos, resuelto,
                 ultimaIniciada, modeloUsado, solapadas, ultimoCalculo>>

\* data() resolved: setResultado(data[0].toFixed(2)), then finally
DataResuelve(p) ==
  /\ p \in predicciones
  /\ resultado' = TextoDe(p.prediccionTensor)
  /\ escritor' = p.id
  /\ textoUltima' = IF p.id = ultimaIniciada THEN resultado' ELSE textoUltima
  /\ tensores' = Finally(tensores, p.inputTensor, p.prediccionTensor)
  /\ predicciones' = predicciones \ {p}
  /\ UNCHANGED <<modeloActual, operacion, valA, valB, cargando, origenModelo,
                 montado, cargas, nCargas, nLlamadas, modelosVivos, resuelto,
                 ultimaIniciada, modeloUsado, solapadas, ultimoCalculo>>

\* a catch block that also drops the model after a failed extraction
DataFallaDescartaModelo(p) ==
  /\ p \in predicciones
  /\ resultado' = Error
  /\ modeloActual' = Null
  /\ escritor' = p.id
  /\ textoUltima' = IF p.id = ultimaIniciada THEN Error ELSE textoUltima
  /\ tensores' = Finally(tensores, p.inputTensor, p.prediccionTensor)
  /\ predicciones' = predicciones \ {p}
  /\ UNCHANGED <<operacion, valA, valB, cargando, origenModelo,
                 montado, cargas, nCargas, nLlamadas, modelosVivos, resuelto,
                 ultimaIniciada, modeloUsado, solapadas, ultimoCalculo>>

\* data() rejected: catch sets the error marker, then finally
DataFalla(p) ==
  /\ p \in predicciones
  /\ resultado' = Error
  /\ escritor' = p.id
  /\ textoUltima' = IF p.id = ultimaIniciada THEN Error ELSE textoUltima
  /\ tensores' = Finally(tensores, p.inputTensor, p.prediccionTensor)
  /\ predicciones' = predicciones \ {p}
  /\ UNCHANGED <<modeloActual, operacion, valA, valB, cargando, origenModelo,
                 montado, cargas, nCargas, nLlamadas, modelosVivos, resuelto,
                 ultimaIniciada, modeloUsado, solapadas, ultimoCalculo>>

(***************************************************************************)
(* The session: every event the page can deliver, the inputs typing        *)
(* strings of E.                                                           *)
(***************************************************************************)
Sesion(E) ==
  \/ EfectoMontaje
  \/ \E op \in Operaciones : CambiarOperacion(op)
  \/ \E op \in Operaciones : MismaOperacion(op)
  \/ \E l \in cargas : CargaResuelve(l)
  \/ \E l \in cargas : CargaFalla(l)
  \/ \E s \in E : setValA(s)
  \/ \E s \in E : setValB(s)
  \/ calcular
  \/ \E p \in predicciones : DataResuelve(p)
  \/ \E p \in predicciones : DataFalla(p)

Next == Sesion(Entradas)

Spec == Init /\ [][Next]_vars

\* the same session with two different numbers to type
NextDosValores == Sesion(EntradasDosValores)

SpecDosValores == Init /\ [][NextDosValores]_vars

(***************************************************************************)
(* The session in which whatever was started settles: every                *)
(* tf.loadLayersModel promise and every data() promise is eventually       *)
(* resolved or rejected; clicks are never forced.  It starts where the     *)
(* mount effect has run (the load of 'suma' is pending) and both inputs    *)
(* hold a number, and the inputs are not retyped.                          *)
(***************************************************************************)
InitMontado ==
  /\ modeloActual = Null
  /\ operacion = "suma"
  /\ valA = <<"2">>
  /\ valB = <<"2">>
  /\ resultado = NullTexto
  /\ cargando = TRUE
  /\ origenModelo = ""
  /\ montado = TRUE
  /\ cargas = {[id |-> 1, op |-> "suma", path |-> Path("suma")]}
  /\ nCargas = 1
  /\ predicciones = {}
  /\ nLlamadas = 0
  /\ tensores = {}
  /\ modelosVivos = {}
  /\ resuelto = [id |-> 0, limpiado |-> TRUE]
  /\ ultimaIniciada = 0
  /\ modeloUsado = 0
  /\ escritor = 0
  /\ textoUltima = NullTexto
  /\ solapadas = FALSE
  /\ ultimoCalculo = "ninguno"

NextMontado ==
  \/ \E op \in Operaciones : CambiarOperacion(op)
  \/ \E op \in Operaciones : MismaOperacion(op)
  \/ \E l \in cargas : CargaResuelve(l)
  \/ \E l \in cargas : CargaFalla(l)
  \/ calcular
  \/ \E p \in predicciones : DataResuelve(p)
  \/ \E p \in predicciones : DataFalla(p)

CargaSeAsienta(i) ==
  \E l \in cargas : l.id = i /\ (CargaResuelve(l) \/ CargaFalla(l))

DataSeAsienta(i) ==
  \E p \in predicciones : p.id = i /\ (DataResuelve(p) \/ DataFalla(p))

Justicia ==
  /\ \A i \in 1..MaxCargas : WF_vars(CargaSeAsienta(i))
  /\ \A i \in 1..MaxLlamadas : WF_vars(DataSeAsienta(i))

SpecJusta == InitMontado /\ [][NextMontado]_vars /\ Justicia

(***************************************************************************)
(* calcular as a function of its inputs: the session is Ready (the mount   *)
(* load, and for 'resta' the load of the change, have settled), the two    *)
(* inputs hold any strings of EntradasAmplias and only the compute button  *)
(* is used.                                                                *)
(***************************************************************************)
InitCalcular ==
  /\ operacion \in Operaciones
  /\ nCargas = (IF operacion = "suma" THEN 1 ELSE 2)
  /\ modeloActual \in loadLayersModel(Path(operacion), nCargas)
                         \cup {crearModeloEnMemoria(operacion, nCargas)}
  /\ origenModelo = (IF modeloActual.origen = "archivo" THEN "Archivo JSON"
                     ELSE "Generado en Memoria (Demo)")
  /\ valA \in EntradasAmplias
  /\ valB \in EntradasAmplias
  /\ resultado = NullTexto
  /\ cargando = FALSE
  /\ montado = TRUE
  /\ cargas = {}
  /\ predicciones = {}
  /\ nLlamadas = 0
  /\ tensores = {}
  /\ modelosVivos = 1..nCargas
  /\ resuelto = [id |-> nCargas, limpiado |-> FALSE]
  /\ ultimaIniciada = 0
  /\ modeloUsado = 0
  /\ escritor = 0
  /\ textoUltima = NullTexto
  /\ solapadas = FALSE
  /\ ultimoCalculo = "ninguno"

NextCalcular ==
  \/ calcular
  \/ \E p \in predicciones : DataResuelve(p)
  \/ \E p \in predicciones : DataFalla(p)

SpecCalcular == InitCalcular /\ [][NextCalcular]_vars

(***************************************************************************)
(* Properties.                                                             *)
(***************************************************************************)
\* a step in which a load settles
CargaAsentada == cargas' # cargas /\ cargas' \subseteq cargas

\* a step in which calcular reaches tensor2d and predict
PredictInvocado == nLlamadas' # nLlamadas

\* C1: at the step where a load attempt settles, resolved or rejected, the
\* slot holds a model: a resolution never ends without one.
C1_FallbackGuarantee ==
  [][CargaAsentada => (modeloActual' # Null /\ ~cargando')]_vars

\* the mount load was rejected and the slot holds the synthetic model
C1_Witness ==
  /\ cargas = {}
  /\ resuelto.id # 0
  /\ ~resuelto.limpiado
  /\ modeloActual # Null
  /\ modeloActual.origen = "memoria"
  /\ origenModelo = "Generado en Memoria (Demo)"

\* C2: against the synthetic model a completed calcular displays a + b for
\* 'suma' and a - b for 'resta' with two decimals: 2, 3 gives "5.00" under
\* 'suma' and 10, 4 gives "6.00" under 'resta'.
C2_SinteticoSumaResta ==
  LET a == parseFloat(valA).v
      b == parseFloat(valB).v
  IN  (modeloActual # Null /\ modeloActual.origen = "memoria"
         /\ escritor # 0 /\ resultado # Error) =>
        (/\ (operacion = "suma" => resultado = toFixed2(a + b))
         /\ (operacion = "resta" => resultado = toFixed2(a - b))
         /\ ((operacion = "suma" /\ valA = <<"2">> /\ valB = <<"3">>) =>
               resultado = <<"5", ".", "0", "0">>)
         /\ ((operacion = "resta" /\ valA = <<"1", "0">> /\ valB = <<"4">>) =>
               resultado = <<"6", ".", "0", "0">>)
         /\ ((operacion = "resta" /\ valA = <<"-", "1", ".", "5">>
               /\ valB = <<"0", ".", "0", "0", "6">>) =>
               resultado = <<"-", "1", ".", "5", "1">>))

\* Subtract with 10 and 4 on the synthetic model displays 6.00
C2_Witness ==
  /\ operacion = "resta"
  /\ modeloActual.origen = "memoria"
  /\ valA = <<"1", "0">>
  /\ valB = <<"4">>
  /\ escritor # 0
  /\ resultado = <<"6", ".", "0", "0">>

\* C3: whenever calcular invokes predict the slot holds a model and no
\* model resolution is in flight.
C3_PredictSoloListo ==
  [][PredictInvocado => (modeloActual # Null /\ cargas = {})]_vars

\* C4: at most one model resolution is in flight.
C4_UnaCargaEnVuelo == Cardinality(cargas) <= 1

\* C5: at most one prediction is in flight.
C5_UnaPrediccionEnVuelo == Cardinality(predicciones) <= 1

\* an input is empty or parses to NaN
EntradasNoNumericas ==
  \/ valA = <<>>
  \/ valB = <<>>
  \/ isNaN(parseFloat(valA))
  \/ isNaN(parseFloat(valB))

\* C6: a click on the compute button with an empty or non-numeric input
\* invokes no forward pass, allocates no tensor and changes no state.
C6_ValidacionSinEfectos ==
  [][(EntradasNoNumericas /\ calcular) =>
       (/\ UNCHANGED <<modeloActual, operacion, valA, valB, resultado,
                       cargando, origenModelo>>
        /\ UNCHANGED <<predicciones, nLlamadas, tensores, modelosVivos>>
        /\ ultimoCalculo' \in {"retorno", "alerta"})]_vars

\* the alert was raised while an earlier result stays on display
C6_Witness ==
  /\ ultimoCalculo = "alerta"
  /\ EntradasNoNumericas
  /\ resultado = <<"4", ".", "0", "0">>
  /\ tensores = {}

\* C7: at most one undisposed model instance exists.
C7_UnModeloVivo == Cardinality(modelosVivos) <= 1

\* C8: every transient tensor that is live belongs to a calcular call still
\* suspended at data(): a call that has completed, with a result or with
\* "Error", has released every tensor it created.
C8_TensoresLiberados ==
  \A t \in tensores : \E p \in predicciones : p.id = t.llamada

\* data() of a prediction list was rejected and nothing stays live
C8_Witness ==
  /\ escritor # 0
  /\ resultado = Error
  /\ modeloActual # Null
  /\ modeloActual.forma = "lista"
  /\ predicciones = {}
  /\ tensores = {}

\* C9: a forward pass starts only on the model of the resolution that
\* settled last, never after the slot was cleared since; and an operation
\* change leaves the loads in flight in flight.
C9_ModeloMasReciente ==
  [][/\ PredictInvocado =>
          (/\ resuelto.id # 0
           /\ ~resuelto.limpiado
           /\ modeloUsado' = resuelto.id)
      /\ (nCargas' # nCargas => cargas \subseteq cargas')]_vars

\* the load of the mount settled after the operation change, whose own load
\* is still in flight, and a forward pass ran on the model it produced
C9_Witness ==
  /\ nCargas = 2
  /\ cargas # {}
  /\ resuelto = [id |-> 1, limpiado |-> FALSE]
  /\ nLlamadas > 0
  /\ modeloUsado = 1

\* C10: once two overlapping calcular calls have both completed, the
\* display shows the outcome of the call that started last.
C10_UltimaLlamadaGana ==
  (predicciones = {} /\ solapadas) => resultado = textoUltima

\* a step in which the forward pass throws or data() is rejected
FalloDeCalcular ==
  \/ \E p \in predicciones : DataFalla(p)
  \/ calcular /\ PredictInvocado /\ predicciones' = predicciones

\* C11: a failing forward pass or extraction displays "Error" and leaves the
\* model, the tag and the loading flag as they were, so the compute button
\* is as enabled as before; an extraction that resolves afterwards replaces
\* the marker with a formatted number.
C11_ErrorRecuperable ==
  [][/\ (FalloDeCalcular =>
          (/\ resultado' = Error
           /\ UNCHANGED <<modeloActual, origenModelo, cargando>>
           /\ BotonHabilitado' = BotonHabilitado))
      /\ ((\E p \in predicciones : DataResuelve(p)) =>
          (/\ resultado' \notin {Error, NullTexto}
           /\ UNCHANGED <<modeloActual, origenModelo, cargando>>))]_vars

\* call 1 ended in "Error"; call 2, started after that, awaits its data()
C11_Witness ==
  /\ escritor = 1
  /\ resultado = Error
  /\ ultimaIniciada = 2
  /\ ~solapadas
  /\ predicciones # {}
  /\ BotonHabilitado

\* the tag names the way the model in the slot was obtained
ProcedenciaCoherente ==
  /\ (origenModelo = "Archivo JSON") <=>
       (modeloActual # Null /\ modeloActual.origen = "archivo")
  /\ (origenModelo = "Generado en Memoria (Demo)") <=>
       (modeloActual # Null /\ modeloActual.origen = "memoria")
  /\ (origenModelo = "") <=> (modeloActual = Null)

\* C12: in every state origenModelo is 'Archivo JSON' exactly for a loaded
\* model, 'Generado en Memoria (Demo)' exactly for a fallback model and
\* empty exactly for an empty slot; a settling load, rejected or not, leaves
\* resultado alone.
C12_ProcedenciaDelModelo ==
  /\ ProcedenciaCoherente
  /\ [][/\ ProcedenciaCoherente'
        /\ (CargaAsentada => resultado' = resultado)]_vars

\* after an operation change the load resolved from the file
C12_Witness ==
  /\ nCargas = 2
  /\ modeloActual # Null
  /\ modeloActual.origen = "archivo"
  /\ origenModelo = "Archivo JSON"
  /\ resultado = NullTexto

\* a step in which a calcular call completes after an earlier one did
OtraLlamadaCompleta == escritor # 0 /\ escritor' # escritor /\ escritor' # 0

PasoDeCalcular ==
  \/ calcular
  \/ \E p \in predicciones : DataResuelve(p)
  \/ \E p \in predicciones : DataFalla(p)

\* C14: every step of calcular leaves the model, the tag, the operation and
\* the loading flag (and the inputs and the loads in flight) as they were.
C14_CalcularSoloResultado ==
  [][PasoDeCalcular =>
       UNCHANGED <<modeloActual, origenModelo, operacion, cargando, valA,
                   valB, cargas, nCargas, modelosVivos>>]_vars

\* a call started before an operation change completed during the load:
\* it wrote resultado and the slot is still empty, the flag still raised
C14_Witness ==
  /\ cargando
  /\ modeloActual = Null
  /\ origenModelo = ""
  /\ escritor # 0
  /\ resultado # NullTexto

\* C15: a step that changes operacion clears the slot, the result and the
\* tag, raises the loading flag, keeps both inputs and starts the load of
\* the new operation's path; a load starts only on mount or with such a
\* change, so a click on the selected operation starts none.
C15_CambioReentraCarga ==
  [][/\ (operacion' # operacion =>
           (/\ modeloActual' = Null
            /\ resultado' = NullTexto
            /\ origenModelo' = ""
            /\ cargando'
            /\ valA' = valA
            /\ valB' = valB
            /\ nCargas' = nCargas + 1
            /\ cargas \subseteq cargas'
            /\ cargas' \ cargas =
                 {[id |-> nCargas', op |-> operacion',
                   path |-> Path(operacion')]}))
      /\ (nCargas' # nCargas => (operacion' # operacion \/ ~montado))]_vars

\* 'resta' was selected after a result had been displayed: the display is
\* cleared, the load is pending and both inputs are kept
C15_Witness ==
  /\ operacion = "resta"
  /\ nCargas = 2
  /\ cargando
  /\ modeloActual = Null
  /\ resultado = NullTexto
  /\ origenModelo = ""
  /\ valA = <<"2">>
  /\ valB = <<"2">>
  /\ nLlamadas > 0
  /\ predicciones = {}

\* the ids of the calcular calls suspended at data()
EnVuelo == {p.id : p \in predicciones}

\* C16: when every started load and every started extraction settles, the
\* session ends up Ready for good (after the last operation change), every
\* suspended calcular call completes, its completion displays a formatted
\* number or "Error", and a resolution makes one load attempt: the settling
\* of a load starts no other.
C16_TerminaListo ==
  /\ <>[](~cargando /\ modeloActual # Null /\ cargas = {})
  /\ \A i \in 1..MaxLlamadas : (i \in EnVuelo) ~> (i \notin EnVuelo)
  /\ [][/\ (EnVuelo' # EnVuelo /\ EnVuelo' \subseteq EnVuelo =>
             (resultado' = Error \/
              \E p \in predicciones : resultado' = TextoDe(p.prediccionTensor)))
        /\ (CargaAsentada =>
             (nCargas' = nCargas /\
              Cardinality(cargas') = Cardinality(cargas) - 1))
        /\ (nCargas' # nCargas =>
             Cardinality(cargas') = Cardinality(cargas) + 1)]_vars

\* both resolutions settled, a call completed, the session is Ready
C16_Witness ==
  /\ nCargas = 2
  /\ cargas = {}
  /\ ~cargando
  /\ modeloActual # Null
  /\ nLlamadas > 0
  /\ predicciones = {}
  /\ resultado # NullTexto

\* C17: when no resolution is in flight and the slot holds a model, it is
\* the model resolved for the selected operation.
C17_ModeloDeLaOperacion ==
  (cargas = {} /\ modeloActual # Null) => modeloActual.op = operacion

\* C18: cargando is true whenever a model resolution is in flight.
C18_CargandoVeraz == cargas # {} => cargando

\* C19: after an operation change resultado stays null until a calcular
\* call started after the change completes: while no forward pass has
\* started since the change nothing is on display.
C19_SinResultadoObsoleto == resultado # NullTexto => ultimaIniciada # 0

====
